---- MODULE Spec2Model ----
(***************************************************************************)
(* Gesture-driven photo tree: the application mode machine (App.tsx) and   *)
(* the showcase scheduler that runs in PhotoCloud's per-frame callback.    *)
(*                                                                         *)
(* Units.  The source computes with floating-point seconds and radians.    *)
(* Here time is counted in centiseconds (1 = 0.01 s) and angles in         *)
(* milliradians (1 = 0.001 rad), so that every constant of the scheduler   *)
(* is an integer: 2.5 rad/s = 25 mrad/cs, 0.3 rad/s = 3 mrad/cs, the tree  *)
(* rotation time * 0.1 rad/s = 1 mrad/cs, 6.0 s = 600 cs, 0.7 s = 70 cs.   *)
(* Spin velocity is kept in mrad/s.  Normalised image coordinates and the  *)
(* hand rotation are counted in thousandths (0.5 = 500).                   *)
(***************************************************************************)
EXTENDS Integers, Sequences, FiniteSets, TLC

VARIABLES mode, photos, focusId, handState, nextPhotoIndex,
          time, sys, prevSystemAngle, spinVelocity, accumulatedSpin, prevMode,
          lastIdleTick, lastCycleEnd, handUpdates,
          stableGesture, lastRawGesture, gestureConsistencyCount, rawLog,
          tracking, uploads, nextId

appVars   == <<mode, photos, focusId, handState, nextPhotoIndex>>
frameVars == <<time, sys, prevSystemAngle, spinVelocity, accumulatedSpin, prevMode,
               lastIdleTick, lastCycleEnd>>
\* HandTracker's stability refs; tracking: predictWebcam is still scheduled for
\* the next animation frame; and the history rawLog: what the last two
\* classification ticks saw (a raw label, or NO_HAND), oldest first
trackerVars == <<stableGesture, lastRawGesture, gestureConsistencyCount, rawLog,
                 tracking>>
\* the uploads whose files are still being processed, and the next fresh photo id
galleryVars == <<uploads, nextId>>
\* history: lastIdleTick is the time of the last frame that ran outside ASSEMBLED,
\* lastCycleEnd the time of the last frame that left no participant where there
\* was one, handUpdates counts the hand reports of a bounded session
vars      == <<mode, photos, focusId, handState, nextPhotoIndex,
               time, sys, prevSystemAngle, spinVelocity, accumulatedSpin, prevMode,
               lastIdleTick, lastCycleEnd, handUpdates,
               stableGesture, lastRawGesture, gestureConsistencyCount, rawLog,
               tracking, uploads, nextId>>

(***************************************************************************)
(* Bounds of the model.                                                    *)
(***************************************************************************)
\* largest pool loaded at start-up
MaxPhotos == 5
\* length of a session with hand input (centiseconds)
MaxTime == 800
\* length of an unattended session, long enough for a whole showcase cycle
MaxShowTime == 1900
\* number of hand reports that change the hand state in a session
MaxHandUpdates == 2
\* length of a regular frame (centiseconds)
DtFrame == 20
\* a long frame (a stalled tab) lasts this many regular frames
GapFrames == 35
\* cap of the round-robin cursor
MaxCursor == 3
\* number of classification ticks of a tracking session
MaxTicks == 6
\* number of photos uploaded in a gallery session, and files chosen at once
MaxNewPhotos == 1
MaxBatch == 1
\* largest stored pool a gallery session starts with
MaxStored == 3
\* a curated session: its length (centiseconds), the pool it starts with and
\* the number of photos deleted while the tree is shown
MaxCuratedTime == 2100
CuratedPool == 3
MaxDeletes == 2
\* largest pool of an endless session
EndlessPool == 3

DtGap == GapFrames * DtFrame
Deltas == {DtFrame, DtGap}

(***************************************************************************)
(* Program constants.                                                      *)
(***************************************************************************)
Pi == 3142
TwoPi == 2 * Pi
HalfPi == Pi \div 2
\* const targetAngle = Math.PI / 2
targetAngle == HalfPi
CooldownDelay == 600
LaunchStagger == 70
NormalSpeed == 25
SlowSpeed == 3
SlowZone == 400
PresentWindow == 100
ReturnTolerance == 300
MinLaps == 2
GoldenAngle == 2400
NoFocus == 0 - 1
NoTick == 0 - 1

Modes == {"ASSEMBLED", "DISPERSED", "FOCUS"}
GestureType == {"NONE", "FIST", "OPEN_PALM", "PINCH", "POINT"}

(***************************************************************************)
(* Arithmetic of the source.                                               *)
(***************************************************************************)
Abs(x) == IF x < 0 THEN 0 - x ELSE x

\* JavaScript's a % m: the remainder takes the sign of the dividend
JsMod(a, m) == IF a >= 0 THEN a % m ELSE 0 - ((0 - a) % m)

\* division truncating toward zero, as a fixed-point stand-in for float products
TruncDiv(a, b) == IF a >= 0 THEN a \div b ELSE 0 - ((0 - a) \div b)

\* (x + 2*PI) % (2*PI)
NormAngle(x) == JsMod(x + TwoPi, TwoPi)

\* dist = |a - b|; if (dist > PI) dist = 2*PI - dist
WrapDist(a, b) == LET d == Abs(a - b) IN IF d > Pi THEN TwoPi - d ELSE d

(***************************************************************************)
(* The pool.  A photo is its id and the effective placement index that     *)
(* generateFramePosition used for it; treePosition lies at the polar angle *)
(* thetaTree = i * goldenAngle (tx = cos(theta) r, tz = sin(theta) r).     *)
(***************************************************************************)
\* generateFramePosition(index, totalExisting), as far as the dispersed
\* position goes: the radius rScatter (milli-units; rnd is the Math.random()
\* draw in thousandths) and the vertical ratio safeY (thousandths)
GenerateFramePosition(index, totalExisting, rnd) ==
    LET i    == totalExisting + index
        rndY == (((i * 13) % 20) * 1000) \div 20
    IN  [index    |-> i,
         rScatter |-> 6000 + (i % 3) * 1500 + rnd,
         safeY    |-> TruncDiv((rndY - 500) * 8, 10)]

\* a photo: its id and what generateFramePosition gave it
PlacedPhoto(id, pos) ==
    [id |-> id, index |-> pos.index, rScatter |-> pos.rScatter, safeY |-> pos.safeY]

\* the photo that was uploaded as the i-th of the stored gallery
Photo(i) == PlacedPhoto(i, GenerateFramePosition(i, 0, 0))

\* the gallery persisted by earlier sessions: n photos uploaded in order
StoredPool(n) == [k \in 1..n |-> Photo(k - 1)]

\* wrap an angle into (-PI, PI], the range of Math.atan2
WrapPi(x) == LET n == NormAngle(JsMod(x, TwoPi)) IN IF n > Pi THEN n - TwoPi ELSE n

\* Math.atan2(treePosition[0], treePosition[2]) = atan2(cos(theta), sin(theta))
\*                                              = PI/2 - theta, wrapped
SlotAngleOf(p) == WrapPi(HalfPi - p.index * GoldenAngle)

PhotoIds == {photos[k].id : k \in 1..Len(photos)}

(***************************************************************************)
(* Showcase scheduler: PhotoCloud's useFrame callback.                     *)
(***************************************************************************)
\* (sys.systemAngle + p.offsetAngle) % (Math.PI * 2), then normalised
WorldAngle(angle, p) == NormAngle(JsMod(angle + p.offsetAngle, TwoPi))

\* distance of a participant's world angle to the front of the camera
DistToTarget(angle, p) == WrapDist(WorldAngle(angle, p), targetAngle)

Launched(p, t) == t >= p.launchTime

\* const candidates = photos.filter(p => p.id !== focusId)
Candidates == SelectSeq(photos, LAMBDA p : p.id # focusId)

\* faulty variant: the offset is the whole pool size and no collision is repaired
SecondIndexNoHalf(idx1, n) == (idx1 + n) % n

\* idx2 = (idx1 + floor(n / 2)) % n; if (idx1 === idx2) idx2 = (idx1 + 1) % n
SecondIndex(idx1, n) ==
    LET i2 == (idx1 + (n \div 2)) % n
    IN  IF idx1 = i2 THEN (idx1 + 1) % n ELSE i2

Participant(p, offset, launch) ==
    [id |-> p.id, offsetAngle |-> offset, launchTime |-> launch,
     hasPresented |-> FALSE, originalSlotAngle |-> SlotAngleOf(p)]

\* faulty variant: both participants leave at once
NewActiveTogether(p1, p2, t) ==
    [k \in {p1.id, p2.id} |->
        IF k = p2.id THEN Participant(p2, Pi, t) ELSE Participant(p1, 0, t)]

\* sys.active = { [p1.id]: {...}, [p2.id]: {...} }; a later key overwrites an equal one
NewActive(p1, p2, t) ==
    [k \in {p1.id, p2.id} |->
        IF k = p2.id THEN Participant(p2, Pi, t + LaunchStagger)
                     ELSE Participant(p1, 0, t)]

\* 1. COOLDOWN -> START, with the two random draws given
StartCycle(s, t, idx1, angle) ==
    LET c  == Candidates
        p1 == c[idx1 + 1]
        p2 == c[SecondIndex(idx1, Len(c)) + 1]
    IN  [s EXCEPT !.systemAngle = angle, !.phase = "ACTIVE", !.lapCounter = 0,
                  !.active = NewActive(p1, p2, t)]

\* "Slow down zone": any launched photo near the target once two laps are done
InPresentationZone(s, t) ==
    \E k \in DOMAIN s.active :
        /\ Launched(s.active[k], t)
        /\ DistToTarget(s.systemAngle, s.active[k]) < SlowZone
        /\ s.lapCounter >= MinLaps

\* faulty variant: the presentation zone does not slow the orbit down
OrbitSpeedAlwaysFast(inZone) == NormalSpeed

OrbitSpeed(inZone) == IF inZone THEN SlowSpeed ELSE NormalSpeed

\* faulty variant: the orbit runs backwards inside the presentation zone
AdvanceAngleReversedInZone(angle, inZone, delta) ==
    IF inZone THEN angle - SlowSpeed * delta ELSE angle + NormalSpeed * delta

\* sys.systemAngle += speed * delta
AdvanceAngle(angle, inZone, delta) == angle + OrbitSpeed(inZone) * delta

\* Track Laps: if (laps > prevLaps) sys.lapCounter++
TrackLaps(lapCounter, totalRot, prevRot) ==
    IF (totalRot \div TwoPi) > (prevRot \div TwoPi) THEN lapCounter + 1 ELSE lapCounter

\* faulty variant: presentation is marked without waiting for two laps
MarkPresentedNoLaps(p, angle, lapCounter, t) ==
    IF ~p.hasPresented /\ Launched(p, t) /\ DistToTarget(angle, p) < PresentWindow
    THEN [p EXCEPT !.hasPresented = TRUE]
    ELSE p

\* faulty variant: marking a presentation re-reads the slot angle from the orbit
MarkPresentedMovesSlot(p, angle, lapCounter, t) ==
    IF /\ ~p.hasPresented
       /\ Launched(p, t)
       /\ lapCounter >= MinLaps
       /\ DistToTarget(angle, p) < PresentWindow
    THEN [p EXCEPT !.hasPresented = TRUE, !.originalSlotAngle = WrapPi(angle)]
    ELSE p

\* 1. Mark Presented
MarkPresented(p, angle, lapCounter, t) ==
    IF /\ ~p.hasPresented
       /\ Launched(p, t)
       /\ lapCounter >= MinLaps
       /\ DistToTarget(angle, p) < PresentWindow
    THEN [p EXCEPT !.hasPresented = TRUE]
    ELSE p

\* Current Slot World Angle
SlotWorldAngle(p, t, spin) ==
    LET treeRot == JsMod(t + spin, TwoPi)
    IN  JsMod(treeRot + p.originalSlotAngle, TwoPi)

\* wrapped shortest-path difference between orbit angle and slot angle
ReturnDiff(p, angle, t, spin) ==
    LET currentOrbitAngle == JsMod(angle + p.offsetAngle, TwoPi)
    IN  WrapDist(NormAngle(currentOrbitAngle), NormAngle(SlotWorldAngle(p, t, spin)))

\* faulty variant: a participant may return during a presentation
ShouldReturnIgnoringZone(p, inZone, angle, t, spin) ==
    p.hasPresented /\ ReturnDiff(p, angle, t, spin) < ReturnTolerance

\* 2. Check for RETURN Opportunity
ShouldReturn(p, inZone, angle, t, spin) ==
    /\ p.hasPresented
    /\ ~inZone
    /\ ReturnDiff(p, angle, t, spin) < ReturnTolerance

\* faulty variant: any removal ends the cycle, even if a participant remains
CleanupAlwaysCooldown(s, toRemove, t) ==
    IF toRemove = {} THEN s
    ELSE [s EXCEPT !.active = [k \in (DOMAIN s.active) \ toRemove |-> s.active[k]],
                   !.phase = "COOLDOWN", !.cooldownUntil = t + CooldownDelay]

\* faulty variant: the last removal does not end the cycle
CleanupStaysActive(s, toRemove, t) ==
    [s EXCEPT !.active = [k \in (DOMAIN s.active) \ toRemove |-> s.active[k]]]

\* faulty variant: the cycle ends without the 6 s wait being scheduled
CleanupNoWait(s, toRemove, t) ==
    IF toRemove = {} THEN s
    ELSE LET rest == [k \in (DOMAIN s.active) \ toRemove |-> s.active[k]]
         IN  IF DOMAIN rest = {}
             THEN [s EXCEPT !.active = rest, !.phase = "COOLDOWN",
                            !.cooldownUntil = t]
             ELSE [s EXCEPT !.active = rest]

\* faulty variant: the next run is scheduled after the launch stagger only
CleanupShortWait(s, toRemove, t) ==
    IF toRemove = {} THEN s
    ELSE LET rest == [k \in (DOMAIN s.active) \ toRemove |-> s.active[k]]
         IN  IF DOMAIN rest = {}
             THEN [s EXCEPT !.active = rest, !.phase = "COOLDOWN",
                            !.cooldownUntil = t + LaunchStagger]
             ELSE [s EXCEPT !.active = rest]

\* Cleanup: delete the returned participants; if empty, schedule next run
Cleanup(s, toRemove, t) ==
    IF toRemove = {} THEN s
    ELSE LET rest == [k \in (DOMAIN s.active) \ toRemove |-> s.active[k]]
         IN  IF DOMAIN rest = {}
             THEN [s EXCEPT !.active = rest, !.phase = "COOLDOWN",
                            !.cooldownUntil = t + CooldownDelay]
             ELSE [s EXCEPT !.active = rest]

\* 2. ACTIVE LOOP
ActiveTick(s, t, delta, spin) ==
    LET inZone   == InPresentationZone(s, t)
        angle    == AdvanceAngle(s.systemAngle, inZone, delta)
        laps     == TrackLaps(s.lapCounter, angle, prevSystemAngle)
        marked   == [k \in DOMAIN s.active |-> MarkPresented(s.active[k], angle, laps, t)]
        toRemove == {k \in DOMAIN marked : ShouldReturn(marked[k], inZone, angle, t, spin)}
    IN  Cleanup([s EXCEPT !.systemAngle = angle, !.lapCounter = laps, !.active = marked],
                toRemove, t)

NoActive == [k \in {} |-> k]

\* faulty variant: the reset forgets the lap counter
ResetKeepsLaps(s, t) ==
    [s EXCEPT !.active = NoActive, !.phase = "COOLDOWN",
              !.cooldownUntil = t + CooldownDelay]

\* faulty variant: the reset does not push the cooldown forward
ResetNoCooldownPush(s, t) ==
    [s EXCEPT !.active = NoActive, !.phase = "COOLDOWN", !.lapCounter = 0]

\* faulty variant: the reset empties the map but leaves the phase as it is
ResetStaysActive(s, t) ==
    [s EXCEPT !.active = NoActive, !.lapCounter = 0,
              !.cooldownUntil = t + CooldownDelay]

\* Reset if mode changes
ResetShowcase(s, t) ==
    [s EXCEPT !.active = NoActive, !.phase = "COOLDOWN", !.lapCounter = 0,
              !.cooldownUntil = t + CooldownDelay]

\* faulty variant: the gate forgets the pool size
SchedulerGateIgnoresPool == mode = "ASSEMBLED"

\* if (mode === 'ASSEMBLED' && photos.length >= 2)
SchedulerGate == mode = "ASSEMBLED" /\ Len(photos) >= 2

\* --- PHYSICS (Common) ---
KickVelocity ==
    IF prevMode # mode
    THEN IF mode = "DISPERSED" /\ prevMode = "ASSEMBLED" THEN 0 - 12000
         ELSE IF mode = "ASSEMBLED" THEN 20000
         ELSE IF mode = "FOCUS" THEN 0
         ELSE spinVelocity
    ELSE spinVelocity

\* spinVelocity.current *= friction  (0.82 in DISPERSED, 0.85 otherwise)
Friction(v) == TruncDiv(v * (IF mode = "DISPERSED" THEN 82 ELSE 85), 100)

\* accumulatedSpin.current += spinVelocity.current * delta  (mrad/s * cs)
SpinStep(v, delta) == TruncDiv(v * delta, 100)

\* Math.random() * Math.PI * 2, drawn from a few values of [0, 2*PI)
StartAngles == {1000, 6000}

\* one frame of PhotoCloud's controller: physics, then the scheduler
UseFrame(delta) ==
    /\ LET t    == time + delta
           v    == Friction(KickVelocity)
           spin == accumulatedSpin + SpinStep(v, delta)
       IN  /\ time' = t
           /\ prevMode' = mode
           /\ spinVelocity' = v
           /\ accumulatedSpin' = spin
           /\ IF SchedulerGate
              THEN IF sys.phase = "COOLDOWN"
                   THEN IF t > sys.cooldownUntil /\ Len(Candidates) >= 2
                        THEN \E idx1 \in 0..(Len(Candidates) - 1), a \in StartAngles :
                                /\ sys' = StartCycle(sys, t, idx1, a)
                                /\ prevSystemAngle' = a
                        ELSE UNCHANGED <<sys, prevSystemAngle>>
                   ELSE /\ sys' = ActiveTick(sys, t, delta, spin)
                        /\ prevSystemAngle' = sys'.systemAngle
              ELSE /\ sys' = ResetShowcase(sys, t)
                   /\ UNCHANGED prevSystemAngle
           /\ lastIdleTick' = IF mode # "ASSEMBLED" THEN t ELSE lastIdleTick
           /\ lastCycleEnd' = IF DOMAIN sys.active # {} /\ DOMAIN sys'.active = {}
                               THEN t ELSE lastCycleEnd
    /\ UNCHANGED <<appVars, handUpdates, trackerVars, galleryVars>>

(***************************************************************************)
(* App: hand updates and the mode state machine effect.                    *)
(***************************************************************************)
\* the hand state before any hand is seen, and after a hand is lost
NoHand == [gesture |-> "NONE", position |-> [x |-> 500, y |-> 500],
           rotation |-> 0, isPresent |-> FALSE]

\* what HandTracker can report to a session: a present hand with a gesture, or
\* no hand (the pose only drives the rendering; a centred hand is reported)
HandStates ==
    {[gesture |-> g, position |-> [x |-> 500, y |-> 500], rotation |-> 0,
      isPresent |-> TRUE] : g \in GestureType}
        \cup {NoHand}

\* const onHandUpdate = (newState) => setHandState(newState)
OnHandUpdate(newState) ==
    /\ handState' = newState
    /\ UNCHANGED <<mode, photos, focusId, nextPhotoIndex>>
    /\ UNCHANGED frameVars

\* what the mode machine holds: the mode, the focus target and the cursor
ModeState(m, f, n) == [mode |-> m, focusId |-> f, nextPhotoIndex |-> n]

\* faulty variant: FIST returns to ASSEMBLED but keeps the focus target
OnFistKeepsFocus(m, f, n) == ModeState("ASSEMBLED", f, n)

\* faulty variant: FIST also rewinds the round-robin cursor
OnFistResetsCursor(m, f, n) == ModeState("ASSEMBLED", NoFocus, 0)

\* FIST outside ASSEMBLED: setMode('ASSEMBLED'); setFocusId(null)
OnFist(m, f, n) == ModeState("ASSEMBLED", NoFocus, n)

\* faulty variant: OPEN_PALM leaves FOCUS but keeps the focus target
OnOpenPalmKeepsFocus(m, f, n) ==
    IF m = "ASSEMBLED" \/ m = "FOCUS" THEN ModeState("DISPERSED", f, n)
    ELSE ModeState(m, f, n)

\* OPEN_PALM: ASSEMBLED -> DISPERSED; FOCUS -> DISPERSED and no focus
OnOpenPalm(m, f, n) ==
    IF m = "ASSEMBLED" THEN ModeState("DISPERSED", f, n)
    ELSE IF m = "FOCUS" THEN ModeState("DISPERSED", NoFocus, n)
    ELSE ModeState(m, f, n)

\* faulty variant: the selection ignores the cursor and always takes the first photo
OnPinchAlwaysFirst(m, f, n) ==
    IF f = NoFocus /\ Len(photos) > 0
    THEN ModeState("FOCUS", photos[1].id, n + 1)
    ELSE ModeState(m, f, n)

\* faulty variant: PINCH selects again although a focus exists
OnPinchRetriggers(m, f, n) ==
    IF Len(photos) > 0
    THEN ModeState("FOCUS", photos[(n % Len(photos)) + 1].id, n + 1)
    ELSE ModeState(m, f, n)

\* faulty variant: a selection advances the cursor by two
OnPinchSkipsOne(m, f, n) ==
    IF f = NoFocus /\ Len(photos) > 0
    THEN ModeState("FOCUS", photos[(n % Len(photos)) + 1].id, n + 2)
    ELSE ModeState(m, f, n)

\* faulty variant: a PINCH on an empty pool still advances the cursor
OnPinchCountsEmptyPool(m, f, n) ==
    IF f = NoFocus
    THEN IF Len(photos) > 0
         THEN ModeState("FOCUS", photos[(n % Len(photos)) + 1].id, n + 1)
         ELSE ModeState(m, f, n + 1)
    ELSE ModeState(m, f, n)

\* PINCH in DISPERSED: pick next photo in sequence if not already focused
OnPinch(m, f, n) ==
    IF f = NoFocus /\ Len(photos) > 0
    THEN ModeState("FOCUS", photos[(n % Len(photos)) + 1].id, n + 1)
    ELSE ModeState(m, f, n)

\* faulty variant: PINCH selects a photo in whatever mode the machine is
GestureStepPinchAnywhere(h, m, f, n) ==
    IF h.gesture = "FIST" /\ m # "ASSEMBLED" THEN OnFist(m, f, n)
    ELSE IF h.gesture = "OPEN_PALM" THEN OnOpenPalm(m, f, n)
    ELSE IF h.gesture = "PINCH" THEN OnPinch(m, f, n)
    ELSE ModeState(m, f, n)

\* faulty variant: POINT is handled like OPEN_PALM
GestureStepPointIsPalm(h, m, f, n) ==
    IF h.gesture = "FIST" /\ m # "ASSEMBLED" THEN OnFist(m, f, n)
    ELSE IF h.gesture \in {"OPEN_PALM", "POINT"} THEN OnOpenPalm(m, f, n)
    ELSE IF h.gesture = "PINCH" /\ m = "DISPERSED" THEN OnPinch(m, f, n)
    ELSE ModeState(m, f, n)

\* the branches taken for a present hand
GestureStep(h, m, f, n) ==
    IF h.gesture = "FIST" /\ m # "ASSEMBLED" THEN OnFist(m, f, n)
    ELSE IF h.gesture = "OPEN_PALM" THEN OnOpenPalm(m, f, n)
    ELSE IF h.gesture = "PINCH" /\ m = "DISPERSED" THEN OnPinch(m, f, n)
    ELSE ModeState(m, f, n)

\* faulty variant: the effect does not test whether a hand is present
ModeStepIgnoresPresence(h, m, f, n) == GestureStep(h, m, f, n)

\* one run of the effect's body: if (!handState.isPresent) return; ...
ModeStep(h, m, f, n) ==
    IF ~h.isPresent THEN ModeState(m, f, n) ELSE GestureStep(h, m, f, n)

\* State Machine Logic driven by Hand Gestures (one run of the effect)
ModeEffect ==
    /\ LET next == ModeStep(handState, mode, focusId, nextPhotoIndex)
       IN  /\ next.nextPhotoIndex <= MaxCursor
           /\ mode' = next.mode
           /\ focusId' = next.focusId
           /\ nextPhotoIndex' = next.nextPhotoIndex
    /\ UNCHANGED <<photos, handState, handUpdates, trackerVars, galleryVars>>
    /\ UNCHANGED frameVars

(***************************************************************************)
(* App: the gallery handlers.                                              *)
(***************************************************************************)
\* Math.random() of the dispersed radius, drawn from the ends of [0, 1)
RandomDraws == {0, 999}

\* files of the running uploads that are not processed yet
RECURSIVE FilesLeft(_)
FilesLeft(us) ==
    IF us = <<>> THEN 0 ELSE (Head(us).files - Head(us).i) + FilesLeft(Tail(us))

\* the sequence without its b-th element
RemoveAt(seq, b) == [k \in 1..(Len(seq) - 1) |-> IF k < b THEN seq[k] ELSE seq[k + 1]]

\* handleUpload up to its first await: currentCount = photos.length is read
\* once, before any file is processed
HandleUpload(k) ==
    /\ uploads' = Append(uploads, [currentCount |-> Len(photos), files |-> k,
                                   i |-> 0, newPhotos |-> <<>>])
    /\ UNCHANGED <<appVars, frameVars, handUpdates, trackerVars, nextId>>

\* handleUpload resumes after await processImageFile(file): the photo is placed
\* and pushed, or the error is caught and the file skipped; after the last file
\* setPhotos(prev => [...prev, ...newPhotos])
FileProcessed(b, ok, rnd) ==
    LET u     == uploads[b]
        photo == PlacedPhoto(nextId, GenerateFramePosition(u.i, u.currentCount, rnd))
        new   == IF ok THEN Append(u.newPhotos, photo) ELSE u.newPhotos
    IN  /\ nextId' = IF ok THEN nextId + 1 ELSE nextId
        /\ IF u.i + 1 = u.files
           THEN /\ photos' = photos \o new
                /\ uploads' = RemoveAt(uploads, b)
           ELSE /\ uploads' = [uploads EXCEPT ![b] = [u EXCEPT !.i = u.i + 1,
                                                               !.newPhotos = new]]
                /\ UNCHANGED photos
        /\ UNCHANGED <<mode, focusId, handState, nextPhotoIndex>>
        /\ UNCHANGED <<frameVars, handUpdates, trackerVars>>

\* faulty variant: a deletion rewinds the round-robin cursor
HandleDeletePhotoRewinds(id) ==
    /\ photos' = SelectSeq(photos, LAMBDA q : q.id # id)
    /\ IF focusId = id
       THEN /\ mode' = "DISPERSED"
            /\ focusId' = NoFocus
       ELSE UNCHANGED <<mode, focusId>>
    /\ nextPhotoIndex' = 0
    /\ UNCHANGED handState
    /\ UNCHANGED <<frameVars, handUpdates, trackerVars, galleryVars>>

\* faulty variant: deleting the focused photo goes back to the tree
HandleDeletePhotoAssembles(id) ==
    /\ photos' = SelectSeq(photos, LAMBDA q : q.id # id)
    /\ IF focusId = id
       THEN /\ mode' = "ASSEMBLED"
            /\ focusId' = NoFocus
       ELSE UNCHANGED <<mode, focusId>>
    /\ UNCHANGED <<handState, nextPhotoIndex>>
    /\ UNCHANGED <<frameVars, handUpdates, trackerVars, galleryVars>>

\* faulty variant: the focused photo is deleted but the focus is kept
HandleDeletePhotoKeepsFocus(id) ==
    /\ photos' = SelectSeq(photos, LAMBDA q : q.id # id)
    /\ IF focusId = id
       THEN /\ mode' = "DISPERSED"
            /\ UNCHANGED focusId
       ELSE UNCHANGED <<mode, focusId>>
    /\ UNCHANGED <<handState, nextPhotoIndex>>
    /\ UNCHANGED <<frameVars, handUpdates, trackerVars, galleryVars>>

\* faulty variant: deleting the focused photo does not leave FOCUS
HandleDeletePhotoStaysFocused(id) ==
    /\ photos' = SelectSeq(photos, LAMBDA q : q.id # id)
    /\ UNCHANGED <<mode, focusId, handState, nextPhotoIndex>>
    /\ UNCHANGED <<frameVars, handUpdates, trackerVars, galleryVars>>

\* handleDeletePhoto: filter the pool; deleting the focused photo disperses
HandleDeletePhoto(id) ==
    /\ photos' = SelectSeq(photos, LAMBDA q : q.id # id)
    /\ IF focusId = id
       THEN /\ mode' = "DISPERSED"
            /\ focusId' = NoFocus
       ELSE UNCHANGED <<mode, focusId>>
    /\ UNCHANGED <<handState, nextPhotoIndex>>
    /\ UNCHANGED <<frameVars, handUpdates, trackerVars, galleryVars>>

(***************************************************************************)
(* HandTracker: one classification tick of predictWebcam.                  *)
(***************************************************************************)
\* a landmark: normalised image coordinates in thousandths
Point(x, y, z) == [x |-> x, y |-> y, z |-> z]

\* a landmark list as far as the source reads it: its length, the wrist
\* (landmarks[0]), the thumb tip (4), the middle-finger base (9) and the tips of
\* the index, middle, ring and little finger (8, 12, 16, 20).  The tips lie at
\* the given distances from the wrist (two of them along a 3-4-5 triangle's
\* hypotenuse when the distance is a multiple of 5), the thumb tip at distance
\* pinch from the index tip.
Hand(count, wristX, midX, midY, reach, pinch) ==
    LET wrist == Point(wristX, 900, 0)
        along(d) == IF d % 5 = 0
                    THEN Point(wristX + 3 * (d \div 5), 900 - 4 * (d \div 5), 0)
                    ELSE Point(wristX, 900 - d, 0)
    IN  [count |-> count,
         wrist |-> wrist,
         thumb |-> Point(wristX, 900 - reach, pinch),
         mid   |-> Point(midX, midY, 0),
         tips  |-> <<Point(wristX, 900 - reach, 0), along(reach + 40),
                     Point(wristX, 900 - (reach - 40), 0), along(reach)>>]

RECURSIVE SqrtIn(_, _, _)
\* the largest k in lo..hi with k * k <= n
SqrtIn(n, lo, hi) ==
    IF lo >= hi THEN lo
    ELSE LET m == (lo + hi + 1) \div 2
         IN  IF m * m <= n THEN SqrtIn(n, m, hi) ELSE SqrtIn(n, lo, m - 1)

\* Math.sqrt, truncated to thousandths
Sqrt(n) == SqrtIn(n, 0, 2000)

\* Helper: Distance between two points
Dist(p1, p2) ==
    Sqrt((p1.x - p2.x) * (p1.x - p2.x) + (p1.y - p2.y) * (p1.y - p2.y)
            + (p1.z - p2.z) * (p1.z - p2.z))

\* 4 * avgDistToWrist: the sum of the four tips' distances to the wrist
SumDistToWrist(h) ==
    Dist(h.tips[1], h.wrist) + Dist(h.tips[2], h.wrist)
        + Dist(h.tips[3], h.wrist) + Dist(h.tips[4], h.wrist)

\* faulty variant: the pinch is tested before the fist
DetectGesturePinchFirst(h) ==
    IF h.count < 21 THEN "NONE"
    ELSE IF Dist(h.thumb, h.tips[1]) < 60 THEN "PINCH"
    ELSE IF SumDistToWrist(h) < 4 * 400 THEN "FIST"
    ELSE IF SumDistToWrist(h) > 4 * 500 THEN "OPEN_PALM"
    ELSE "NONE"

\* detectGesture: FIST (priority check), then PINCH, then OPEN_PALM
DetectGesture(h) ==
    IF h.count < 21 THEN "NONE"
    ELSE IF SumDistToWrist(h) < 4 * 400 THEN "FIST"
    ELSE IF Dist(h.thumb, h.tips[1]) < 60 THEN "PINCH"
    ELSE IF SumDistToWrist(h) > 4 * 500 THEN "OPEN_PALM"
    ELSE "NONE"

\* what detectGesture can return
RawGestures == {"NONE", "FIST", "PINCH", "OPEN_PALM"}

\* hands the camera sees, with 21 landmarks: a fist, a fist whose thumb touches
\* the index finger, a pinch, an open palm, a relaxed hand; and malformed
\* samples of 15 and of 5 landmarks
FistHand        == Hand(21, 500, 500, 500, 300, 200)
PinchedFistHand == Hand(21, 400, 300, 700, 300, 30)
PinchHand       == Hand(21, 500, 500, 500, 450, 30)
PalmHand        == Hand(21, 500, 500, 500, 700, 200)
RelaxedHand     == Hand(21, 400, 300, 700, 450, 200)
ShortHand       == Hand(15, 500, 400, 600, 700, 200)
StubHand        == Hand(5, 500, 400, 600, 700, 200)

Hands == {FistHand, PinchedFistHand, PinchHand, PalmHand, RelaxedHand,
          ShortHand, StubHand}

\* detections.landmarks of a tick: no hand, or the landmark list of one hand
Detections ==
    {[present |-> TRUE, landmarks |-> h] : h \in Hands} \cup {[present |-> FALSE]}

\* centerX = (wrist.x + middleMCP.x) / 2; return (centerX - 0.5) * 2
CalculateHandRotation(h) == h.wrist.x + h.mid.x - 1000

\* landmarks[0] or landmarks[9] is undefined: reading its x throws a TypeError
ReadsMissingLandmark(h) == h.count < 10

\* faulty variant: one raw label is enough to switch the stable gesture
StabilizeAtOnce(raw) ==
    LET count == IF raw = lastRawGesture THEN gestureConsistencyCount + 1 ELSE 1
    IN  [stable |-> raw, lastRaw |-> raw, count |-> count]

\* Gesture Stability Logic: switch only after 2 consecutive equal raw labels
Stabilize(raw) ==
    LET count == IF raw = lastRawGesture THEN gestureConsistencyCount + 1 ELSE 1
    IN  [stable  |-> IF count >= 2 THEN raw ELSE stableGesture,
         lastRaw |-> raw,
         count   |-> count]

\* faulty variant: the loss of the hand does not end the streak of equal labels
ResetStabilityKeepsStreak ==
    [stable |-> "NONE", lastRaw |-> lastRawGesture, count |-> gestureConsistencyCount]

\* faulty variant: the stable gesture survives the loss of the hand
ResetStabilityKeepsStable == [stable |-> stableGesture, lastRaw |-> "NONE", count |-> 0]

\* Reset stability on loss of hand
ResetStability == [stable |-> "NONE", lastRaw |-> "NONE", count |-> 0]

\* one classification tick: classify, stabilise the raw label and report the
\* hand state, then schedule the next tick; an exception ends the loop
PredictWebcam(d) ==
    IF d.present /\ ReadsMissingLandmark(d.landmarks)
    THEN /\ tracking' = FALSE
         /\ UNCHANGED <<stableGesture, lastRawGesture, gestureConsistencyCount,
                        rawLog, handUpdates>>
         /\ UNCHANGED <<appVars, frameVars, galleryVars>>
    ELSE /\ LET raw == IF d.present THEN DetectGesture(d.landmarks) ELSE "NONE"
                st  == IF d.present THEN Stabilize(raw) ELSE ResetStability
            IN  /\ stableGesture' = st.stable
                /\ lastRawGesture' = st.lastRaw
                /\ gestureConsistencyCount' = st.count
                /\ rawLog' = <<rawLog[2], IF d.present THEN raw ELSE "NO_HAND">>
                /\ IF d.present
                   THEN OnHandUpdate([gesture   |-> st.stable,
                                      position  |-> [x |-> 1000 - d.landmarks.mid.x,
                                                     y |-> d.landmarks.mid.y],
                                      rotation  |-> CalculateHandRotation(d.landmarks),
                                      isPresent |-> TRUE])
                   ELSE OnHandUpdate([gesture   |-> "NONE",
                                      position  |-> [x |-> 500, y |-> 500],
                                      rotation  |-> 0,
                                      isPresent |-> FALSE])
         /\ handUpdates' = handUpdates + 1
         /\ UNCHANGED <<tracking, galleryVars>>

(***************************************************************************)
(* Specification.                                                          *)
(***************************************************************************)
Init ==
    /\ mode = "ASSEMBLED"
    /\ photos \in {StoredPool(n) : n \in 0..MaxPhotos}
    /\ focusId = NoFocus
    /\ handState = NoHand
    /\ nextPhotoIndex = 0
    /\ time = 0
    /\ sys = [active |-> NoActive, systemAngle |-> 0, phase |-> "COOLDOWN",
              cooldownUntil |-> CooldownDelay, lapCounter |-> 0]
    /\ prevSystemAngle = 0
    /\ spinVelocity = 0
    /\ accumulatedSpin = 0
    /\ prevMode = "ASSEMBLED"
    /\ lastIdleTick = NoTick
    /\ lastCycleEnd = NoTick
    /\ handUpdates = 0
    /\ stableGesture = "NONE"
    /\ lastRawGesture = "NONE"
    /\ gestureConsistencyCount = 0
    /\ rawLog = <<"NO_HAND", "NO_HAND">>
    /\ tracking = TRUE
    /\ uploads = <<>>
    /\ nextId = MaxPhotos

\* a frame of a session that lasts until the given time
Frame(horizon) == \E delta \in Deltas : time + delta <= horizon /\ UseFrame(delta)

\* HandTracker reports a changed hand state
HandReport ==
    \E h \in HandStates :
        /\ h # handState
        /\ handUpdates < MaxHandUpdates
        /\ OnHandUpdate(h)
        /\ handUpdates' = handUpdates + 1
        /\ UNCHANGED <<trackerVars, galleryVars>>

SessionFrame == Frame(MaxTime)

Next ==
    \/ SessionFrame
    \/ HandReport
    \/ ModeEffect

\* a session with a visitor: frames, hand reports and the mode machine interleave
Spec == Init /\ [][Next]_vars

ShowcaseFrame == Frame(MaxShowTime)

NextShowcase == ShowcaseFrame

\* an unattended session: no hand is ever reported, only frames run
SpecShowcase == Init /\ [][NextShowcase]_vars

\* the camera delivers a frame to classify
ClassificationTick ==
    \E d \in Detections : tracking /\ handUpdates < MaxTicks /\ PredictWebcam(d)

NextTracker ==
    \/ ClassificationTick
    \/ ModeEffect

\* a tracking session: classification ticks and the mode machine, no frame clock
SpecTracker == Init /\ [][NextTracker]_vars

\* the stable gesture shown to the camera changes (or the hand comes or goes)
GestureChange ==
    \E h \in HandStates :
        /\ h # handState
        /\ OnHandUpdate(h)
        /\ UNCHANGED <<handUpdates, trackerVars, galleryVars>>

\* the visitor chooses files to upload
ChooseFiles ==
    \E k \in 1..MaxBatch :
        /\ (nextId - MaxPhotos) + FilesLeft(uploads) + k <= MaxNewPhotos
        /\ HandleUpload(k)

\* a file of a running upload has been compressed, or has failed
FileDone ==
    \E b \in 1..Len(uploads), ok \in BOOLEAN, rnd \in RandomDraws :
        FileProcessed(b, ok, rnd)

\* the visitor deletes a photo in the gallery
DeleteClick == \E id \in PhotoIds : HandleDeletePhoto(id)

NextGallery ==
    \/ GestureChange
    \/ ModeEffect
    \/ ChooseFiles
    \/ FileDone
    \/ DeleteClick

\* a gallery session starts with a small stored pool
InitGallery == Init /\ Len(photos) <= MaxStored

\* a gallery session: gestures, the mode machine, uploads and deletions
SpecGallery == InitGallery /\ [][NextGallery]_vars

CuratedFrame == Frame(MaxCuratedTime)

\* the curator deletes a photo in the gallery while the tree is shown
CuratedDelete ==
    \E id \in PhotoIds :
        /\ CuratedPool - Len(photos) < MaxDeletes
        /\ HandleDeletePhoto(id)

NextCurated ==
    \/ CuratedFrame
    \/ CuratedDelete

InitCurated == Init /\ Len(photos) = CuratedPool

\* a curated session: no hand is shown, frames run and photos are deleted
SpecCurated == InitCurated /\ [][NextCurated]_vars

(***************************************************************************)
(* An endless unattended session.  The frame callback reads systemAngle    *)
(* only modulo 2*PI and through the lap difference to the previous frame,  *)
(* lapCounter only through lapCounter >= 2, and the clock only through     *)
(* differences to cooldownUntil and launchTime and through time * 0.1      *)
(* modulo 2*PI.  After every frame the state is therefore folded: whole    *)
(* laps are taken off the angle, lapCounter stops at 2, whole tree turns   *)
(* are taken off the clock and off the times compared with it, a past      *)
(* launchTime and the cooldownUntil of a running cycle (rewritten when the *)
(* cycle ends) become 0.  The render loop of this session is stalled:      *)
(* every frame lasts a quarter or a half of a tree turn (5*PI or 10*PI     *)
(* seconds), which keeps the folded clock on four values.                  *)
(***************************************************************************)
\* the clock time after which time * 0.1 has made a whole turn
TreePeriod == TwoPi

\* the frame lengths of a stalled render loop
StallFrames == {TreePeriod \div 4, TreePeriod \div 2}

FoldParticipant(p, t, shift) ==
    [p EXCEPT !.launchTime = IF Launched(p, t) THEN 0 ELSE p.launchTime - shift]

FoldShowcase(s, t, shift) ==
    [s EXCEPT !.systemAngle = s.systemAngle % TwoPi,
              !.lapCounter = IF s.lapCounter >= MinLaps THEN MinLaps ELSE s.lapCounter,
              !.cooldownUntil = IF s.phase = "ACTIVE" THEN 0 ELSE s.cooldownUntil - shift,
              !.active = [k \in DOMAIN s.active |-> FoldParticipant(s.active[k], t, shift)]]

\* what the scheduler part of one frame at time t can leave in sys
FrameOutcomes(t, delta, spin) ==
    IF SchedulerGate
    THEN IF sys.phase = "COOLDOWN"
         THEN IF t > sys.cooldownUntil /\ Len(Candidates) >= 2
              THEN {StartCycle(sys, t, idx1, a) :
                       idx1 \in 0..(Len(Candidates) - 1), a \in StartAngles}
              ELSE {sys}
         ELSE {ActiveTick(sys, t, delta, spin)}
    ELSE {ResetShowcase(sys, t)}

\* one frame of PhotoCloud's controller, folded
EndlessFrame(delta) ==
    /\ LET t     == time + delta
           v     == Friction(KickVelocity)
           spin  == accumulatedSpin + SpinStep(v, delta)
           shift == t - (t % TreePeriod)
       IN  /\ time' = t - shift
           /\ prevMode' = mode
           /\ spinVelocity' = v
           /\ accumulatedSpin' = spin
           /\ \E s \in FrameOutcomes(t, delta, spin) :
                 /\ sys' = FoldShowcase(s, t, shift)
                 /\ prevSystemAngle' = s.systemAngle % TwoPi
                 /\ lastCycleEnd' = IF DOMAIN sys.active # {} /\ DOMAIN s.active = {}
                                     THEN t - shift ELSE lastCycleEnd
    /\ UNCHANGED lastIdleTick
    /\ UNCHANGED <<appVars, handUpdates, trackerVars, galleryVars>>

\* the render loop calls the frame callback
EndlessTick == \E delta \in StallFrames : EndlessFrame(delta)

NextEndless == EndlessTick

InitEndless == Init /\ Len(photos) >= 2 /\ Len(photos) <= EndlessPool

\* an endless unattended session: the frames never stop coming
SpecEndless == InitEndless /\ [][NextEndless]_vars /\ WF_vars(EndlessTick)

(***************************************************************************)
(* Properties of the showcase scheduler.                                   *)
(***************************************************************************)
ActiveIds == DOMAIN sys.active

\* C1: whenever the scheduler is in phase COOLDOWN, no participant is active
\* (after a cycle start, an ACTIVE tick, a removal or a forced reset).
C1_CooldownHasNoParticipants == sys.phase = "COOLDOWN" => ActiveIds = {}

\* a cycle has run to its end: the tick at the current time removed the last
\* participant and scheduled the next run
C1_Witness_CycleEnded ==
    /\ sys.phase = "COOLDOWN"
    /\ Len(photos) >= 2
    /\ sys.lapCounter >= MinLaps
    /\ sys.cooldownUntil = time + CooldownDelay

\* C2 as stated: while ACTIVE the scheduler holds 0 or 2 participants, never 1.
C2_Original_ZeroOrTwo == sys.phase = "ACTIVE" => Cardinality(ActiveIds) \in {0, 2}

\* C2 as amended: while ACTIVE the scheduler holds 1 or 2 participants; one of
\* the two may have returned to its slot while the other still orbits.
C2_ActiveHasOneOrTwo == sys.phase = "ACTIVE" => Cardinality(ActiveIds) \in {1, 2}

\* one participant has returned, the other is still in flight
C2_Witness_OneLeft == sys.phase = "ACTIVE" /\ Cardinality(ActiveIds) = 1

\* C3 as stated: in no reachable state is the mode other than ASSEMBLED while a
\* participant is still active, however mode-machine steps and frames interleave.
C3_Original_NoOrphanOutsideAssembled == mode # "ASSEMBLED" => ActiveIds = {}

\* C4: a frame that runs while the mode is not ASSEMBLED or the pool has fewer
\* than 2 photos leaves no participant, phase COOLDOWN, lapCounter 0 and
\* cooldownUntil at the time of that frame plus 6 s.
C4_ForcedReset ==
    [][(time' # time /\ (mode # "ASSEMBLED" \/ Len(photos) < 2))
          => /\ DOMAIN sys'.active = {}
             /\ sys'.phase = "COOLDOWN"
             /\ sys'.lapCounter = 0
             /\ sys'.cooldownUntil = time' + CooldownDelay]_vars

\* a frame has just reset a showcase that was running when the mode changed
C4_Witness_ResetOfRunningCycle ==
    /\ mode # "ASSEMBLED"
    /\ lastIdleTick = time
    /\ sys.systemAngle \in StartAngles
    /\ sys.phase = "COOLDOWN"
    /\ sys.cooldownUntil = time + CooldownDelay

\* C5: once a frame has run outside ASSEMBLED, the scheduler is in phase ACTIVE
\* only at times more than 6 s after the last such frame.
C5_FreshWaitAfterReentry ==
    (sys.phase = "ACTIVE" /\ lastIdleTick # NoTick)
        => time > lastIdleTick + CooldownDelay

\* ASSEMBLED was left and re-entered, and a cycle has started since
C5_Witness_CycleAfterReentry ==
    /\ sys.phase = "ACTIVE"
    /\ mode = "ASSEMBLED"
    /\ lastIdleTick # NoTick

\* C6: in ASSEMBLED with phase COOLDOWN and at least 2 photos other than the
\* focused one, the first frame whose time exceeds cooldownUntil starts a cycle:
\* phase ACTIVE, lapCounter 0 and exactly 2 participants, with distinct ids of
\* pool photos other than the focused one, offsets 0 and PI, none presented,
\* whatever index the random draw gives.
C6_StartCreatesTwo ==
    [][(/\ time' # time
        /\ mode = "ASSEMBLED"
        /\ sys.phase = "COOLDOWN"
        /\ Cardinality(PhotoIds \ {focusId}) >= 2
        /\ time' > sys.cooldownUntil)
          => /\ sys'.phase = "ACTIVE"
             /\ sys'.lapCounter = 0
             /\ Cardinality(DOMAIN sys'.active) = 2
             /\ {sys'.active[k].offsetAngle : k \in DOMAIN sys'.active} = {0, Pi}
             /\ \A k \in DOMAIN sys'.active :
                   /\ k \in PhotoIds \ {focusId}
                   /\ sys'.active[k].id = k
                   /\ ~sys'.active[k].hasPresented]_vars

\* a cycle has just started in a pool of 5 photos
C6_Witness_StartedPoolOfFive ==
    /\ Len(photos) = 5
    /\ sys.phase = "ACTIVE"
    /\ Cardinality(ActiveIds) = 2
    /\ \E k \in ActiveIds : sys.active[k].launchTime = time

\* C7: when a cycle starts at time t, the participant with offset 0 is launched
\* at t and the one with offset PI at t + 0.7 s.
C7_StaggeredLaunch ==
    [][(sys.phase = "COOLDOWN" /\ sys'.phase = "ACTIVE")
          => \E a, b \in DOMAIN sys'.active :
                /\ sys'.active[a].offsetAngle = 0
                /\ sys'.active[a].launchTime = time'
                /\ sys'.active[b].offsetAngle = Pi
                /\ sys'.active[b].launchTime = time' + LaunchStagger
                /\ sys'.active[b].launchTime - sys'.active[a].launchTime = LaunchStagger]_vars

\* a cycle has just started in a pool of exactly 2 photos; the second
\* participant is not launched yet
C7_Witness_StartedPoolOfTwo ==
    /\ Len(photos) = 2
    /\ sys.phase = "ACTIVE"
    /\ \E a, b \in ActiveIds :
          sys.active[a].launchTime = time /\ sys.active[b].launchTime > time

\* C8 as stated: during an ACTIVE phase lapCounter is the number of multiples of
\* 2 PI that systemAngle has crossed since the cycle started (the start angle
\* lies in [0, 2 PI)), whatever the frame lengths.
C8_Original_LapCounterCountsCrossings ==
    sys.phase = "ACTIVE" => sys.lapCounter = sys.systemAngle \div TwoPi

\* C9: an ACTIVE frame removes a participant only if on that frame it has
\* presented, the scheduler is outside the presentation zone and the wrapped
\* difference between its orbit angle and its slot's world angle is below 0.3.
C9_RemovalOnlyWhenPresentedAndAligned ==
    [][\A k \in DOMAIN sys.active :
          (/\ time' # time
           /\ mode = "ASSEMBLED" /\ Len(photos) >= 2
           /\ sys.phase = "ACTIVE"
           /\ k \notin DOMAIN sys'.active)
             => LET p == sys.active[k]
                IN  /\ \/ p.hasPresented
                       \/ /\ time' >= p.launchTime
                          /\ sys'.lapCounter >= MinLaps
                          /\ DistToTarget(sys'.systemAngle, p) < PresentWindow
                    /\ ~InPresentationZone(sys, time')
                    /\ ReturnDiff(p, sys'.systemAngle, time', accumulatedSpin')
                          < ReturnTolerance]_vars

\* the first participant has presented and returned while the second one has
\* not presented yet
C9_Witness_FirstReturned ==
    /\ sys.phase = "ACTIVE"
    /\ Cardinality(ActiveIds) = 1
    /\ \A k \in ActiveIds : ~sys.active[k].hasPresented

\* C10: hasPresented turns true only on a frame where the participant is
\* launched, lapCounter >= 2 and its world angle is within 0.1 of PI/2; it never
\* turns false again while the participant exists.
C10_PresentedOnlyAtTarget ==
    [][\A k \in (DOMAIN sys.active) \cap (DOMAIN sys'.active) :
          LET p == sys.active[k]
              q == sys'.active[k]
          IN  /\ (~p.hasPresented /\ q.hasPresented)
                    => /\ time' >= p.launchTime
                       /\ sys'.lapCounter >= MinLaps
                       /\ DistToTarget(sys'.systemAngle, q) < PresentWindow
              /\ p.hasPresented => q.hasPresented]_vars

\* a participant is marked presented and still orbits
C10_Witness_Presented ==
    /\ sys.phase = "ACTIVE"
    /\ \E k \in ActiveIds : sys.active[k].hasPresented

\* C11: an ACTIVE frame at time t whose removals leave no participant sets
\* phase COOLDOWN and cooldownUntil = t + 6 s on that same frame; if the
\* removals leave one participant, phase stays ACTIVE and cooldownUntil is
\* unchanged.
C11_CycleEndsWhenEmpty ==
    [][(/\ time' # time
        /\ SchedulerGate
        /\ sys.phase = "ACTIVE"
        /\ DOMAIN sys'.active # DOMAIN sys.active)
          => /\ DOMAIN sys'.active = {}
                   => /\ sys'.phase = "COOLDOWN"
                      /\ sys'.cooldownUntil = time' + CooldownDelay
             /\ Cardinality(DOMAIN sys'.active) = 1
                   => /\ sys'.phase = "ACTIVE"
                      /\ sys'.cooldownUntil = sys.cooldownUntil]_vars

\* the frame at the current time removed the last participant of a cycle that
\* had orbited for at least two laps
C11_Witness_LastRemoved ==
    /\ SchedulerGate
    /\ ActiveIds = {}
    /\ sys.systemAngle >= MinLaps * TwoPi
    /\ sys.cooldownUntil = time + CooldownDelay

\* frame lengths for which the orbit step itself is evaluated, zero included
StepDeltas == {0} \cup Deltas

\* C12: while the phase is ACTIVE, systemAngle never decreases from one frame
\* to the next, inside or outside the presentation zone, and the orbit step
\* does not decrease it for any frame length >= 0.
C12_AngleNeverDecreases ==
    [][sys.phase = "ACTIVE"
          => /\ sys'.systemAngle >= sys.systemAngle
             /\ \A d \in StepDeltas, z \in BOOLEAN :
                   AdvanceAngle(sys.systemAngle, z, d) >= sys.systemAngle]_vars

\* the orbit has advanced over two laps at normal speed and a participant is
\* being presented inside the slow zone
C12_Witness_AdvancedIntoZone ==
    /\ sys.phase = "ACTIVE"
    /\ sys.systemAngle >= MinLaps * TwoPi
    /\ \E k \in ActiveIds :
          /\ sys.active[k].hasPresented
          /\ DistToTarget(sys.systemAngle, sys.active[k]) < SlowZone

\* C13: on an ACTIVE frame of length delta, systemAngle grows by 0.3 * delta if,
\* before the step, some launched participant's wrapped world angle is within
\* 0.4 of PI/2 and lapCounter >= 2, and by 2.5 * delta otherwise; a participant
\* whose launchTime is not reached does not cause the slow speed.
C13_SpeedByZone ==
    [][(time' # time /\ SchedulerGate /\ sys.phase = "ACTIVE")
          => LET delta == time' - time
                 slow  == \E k \in DOMAIN sys.active :
                             /\ time' >= sys.active[k].launchTime
                             /\ WrapDist(NormAngle(JsMod(sys.systemAngle
                                            + sys.active[k].offsetAngle, TwoPi)),
                                         HalfPi) < SlowZone
                             /\ sys.lapCounter >= MinLaps
             IN  /\ slow => sys'.systemAngle - sys.systemAngle = SlowSpeed * delta
                 /\ ~slow => sys'.systemAngle - sys.systemAngle = NormalSpeed * delta
                 /\ (\A k \in DOMAIN sys.active : time' < sys.active[k].launchTime)
                       => sys'.systemAngle - sys.systemAngle = NormalSpeed * delta]_vars

\* a participant that is launched and has done its laps sits in the slow zone:
\* the next frame moves at slow speed
C13_Witness_InZone ==
    /\ sys.phase = "ACTIVE"
    /\ sys.lapCounter >= MinLaps
    /\ \E k \in ActiveIds :
          /\ Launched(sys.active[k], time)
          /\ DistToTarget(sys.systemAngle, sys.active[k]) < SlowZone
          /\ ~sys.active[k].hasPresented

\* a frame finds the cooldown expired in ASSEMBLED with fewer than 2 photos
\* other than the focused one
ExpiredWithoutCandidates ==
    /\ time' # time
    /\ mode = "ASSEMBLED"
    /\ sys.phase = "COOLDOWN"
    /\ time' > sys.cooldownUntil
    /\ Cardinality(PhotoIds \ {focusId}) < 2

C15_SlotAngleFixed ==
    [][\A k \in DOMAIN sys'.active :
          IF k \in DOMAIN sys.active
          THEN sys'.active[k].originalSlotAngle = sys.active[k].originalSlotAngle
          ELSE \E i \in 1..Len(photos) :
                  /\ photos[i].id = k
                  /\ sys'.active[k].originalSlotAngle = SlotAngleOf(photos[i])]_vars

\* a participant has orbited, presented and still carries the slot angle of
\* its photo, while the other participant has already returned
C15_Witness_KeptThroughCycle ==
    /\ sys.phase = "ACTIVE"
    /\ Cardinality(ActiveIds) = 1
    /\ \E k \in ActiveIds, i \in 1..Len(photos) :
          /\ photos[i].id = k
          /\ sys.active[k].hasPresented
          /\ sys.active[k].originalSlotAngle = SlotAngleOf(photos[i])
          /\ sys.active[k].originalSlotAngle # 0

(***************************************************************************)
(* Properties of the gesture stabilizer and the mode machine.              *)
(***************************************************************************)
\* this step is a classification tick
IsTick == handUpdates' = handUpdates + 1

\* C16: while the hand stays present, the emitted gesture changes to a label L
\* only on a tick whose raw label is L and whose preceding tick's raw label was
\* L too; a raw label seen for a single tick between two ticks of another label
\* (neither the odd tick nor the tick after it) does not change the emitted
\* gesture.
C16_SwitchNeedsTwoEqualLabels ==
    [][(IsTick /\ handState.isPresent /\ handState'.isPresent)
          => /\ handState'.gesture # handState.gesture
                   => /\ handState'.gesture = rawLog'[2]
                      /\ rawLog'[1] = rawLog'[2]
             /\ rawLog'[1] # rawLog'[2]
                   => handState'.gesture = handState.gesture
             /\ (rawLog[1] = rawLog'[2] /\ rawLog[2] # rawLog'[2])
                   => handState'.gesture = handState.gesture]_vars

\* the third tick has just switched the emitted gesture from NONE to PINCH,
\* the raw label of the second and third tick
C16_Witness_SwitchedOnSecondLabel ==
    /\ handUpdates = 3
    /\ rawLog = <<"PINCH", "PINCH">>
    /\ gestureConsistencyCount = 2
    /\ handState.isPresent
    /\ handState.gesture = "PINCH"

\* C17: a classification tick that detects no hand, whatever the stabilizer
\* held, sets the consistency count to 0, the last raw label and the stable
\* label to NONE and reports gesture NONE, isPresent false, position (0.5, 0.5)
\* and rotation 0 on that same tick.
C17_HandLossResets ==
    [][(IsTick /\ rawLog'[2] = "NO_HAND")
          => /\ gestureConsistencyCount' = 0
             /\ lastRawGesture' = "NONE"
             /\ stableGesture' = "NONE"
             /\ handState'.gesture = "NONE"
             /\ handState'.isPresent = FALSE
             /\ handState'.position = [x |-> 500, y |-> 500]
             /\ handState'.rotation = 0]_vars

\* the hand was lost on the third tick, right after a tick with raw label FIST
C17_Witness_LostAfterFist ==
    /\ handUpdates = 3
    /\ rawLog = <<"FIST", "NO_HAND">>
    /\ ~handState.isPresent
    /\ gestureConsistencyCount = 0

\* C18: a run of the mode effect with isPresent = false leaves the mode, the
\* focus target and the cursor unchanged, in every reachable mode state and for
\* every gesture value; no step that ends with the hand absent (the tick that
\* loses the hand, an effect run after it) changes them.
C18_AbsentHandIsNoOp ==
    /\ [](\A g \in GestureType :
             ModeStep([NoHand EXCEPT !.gesture = g], mode, focusId, nextPhotoIndex)
                = [mode |-> mode, focusId |-> focusId,
                   nextPhotoIndex |-> nextPhotoIndex])
    /\ [][~handState'.isPresent
             => /\ mode' = mode
                /\ focusId' = focusId
                /\ nextPhotoIndex' = nextPhotoIndex]_vars

\* the hand was lost while a photo was in focus, and the focus is still held
C18_Witness_LostInFocus ==
    /\ ~handState.isPresent
    /\ rawLog = <<"PINCH", "NO_HAND">>
    /\ mode = "FOCUS"
    /\ focusId # NoFocus
    /\ nextPhotoIndex = 1

\* a present hand showing the given stable gesture
PresentHand(g) == [NoHand EXCEPT !.gesture = g, !.isPresent = TRUE]

\* the mode effect has run for the current hand state: a further run changes nothing
EffectSettled == ~ENABLED <<ModeEffect>>_vars

\* this step is a run of the mode effect that changes the mode state
IsModeChange ==
    /\ handState' = handState
    /\ <<mode', focusId', nextPhotoIndex'>> # <<mode, focusId, nextPhotoIndex>>

\* C19: from every mode other than ASSEMBLED a present hand with stable gesture
\* FIST moves the mode to ASSEMBLED and clears the focus target, the cursor
\* unchanged; after two consecutive ticks with raw label FIST the reported
\* gesture is FIST and, once the effect has run, the mode is ASSEMBLED with no
\* focus.
C19_FistAssembles ==
    /\ [](mode # "ASSEMBLED"
             => ModeStep(PresentHand("FIST"), mode, focusId, nextPhotoIndex)
                   = [mode |-> "ASSEMBLED", focusId |-> NoFocus,
                      nextPhotoIndex |-> nextPhotoIndex])
    /\ [][(/\ IsModeChange
            /\ handState.isPresent
            /\ handState.gesture = "FIST")
             => /\ mode # "ASSEMBLED"
                /\ mode' = "ASSEMBLED"
                /\ focusId' = NoFocus
                /\ nextPhotoIndex' = nextPhotoIndex]_vars
    /\ [](rawLog = <<"FIST", "FIST">>
             => /\ handState.isPresent
                /\ handState.gesture = "FIST"
                /\ EffectSettled => (mode = "ASSEMBLED" /\ focusId = NoFocus))

\* two FIST ticks have brought the tree back from a focused photo
C19_Witness_FistFromFocus ==
    /\ rawLog = <<"FIST", "FIST">>
    /\ handUpdates = MaxTicks
    /\ nextPhotoIndex = 1
    /\ mode = "ASSEMBLED"
    /\ focusId = NoFocus

\* C20: with a present hand and stable gesture OPEN_PALM the mode effect turns
\* ASSEMBLED into DISPERSED, turns FOCUS into DISPERSED and clears the focus
\* target, and changes nothing in DISPERSED; after two consecutive ticks with
\* raw label OPEN_PALM the reported gesture is OPEN_PALM and, once the effect
\* has run, the mode is DISPERSED (from ASSEMBLED as from any mode).
C20_OpenPalmDisperses ==
    /\ [](ModeStep(PresentHand("OPEN_PALM"), mode, focusId, nextPhotoIndex)
             = [mode |-> "DISPERSED",
                focusId |-> IF mode = "FOCUS" THEN NoFocus ELSE focusId,
                nextPhotoIndex |-> nextPhotoIndex])
    /\ [][(/\ IsModeChange
            /\ handState.isPresent
            /\ handState.gesture = "OPEN_PALM")
             => /\ mode \in {"ASSEMBLED", "FOCUS"}
                /\ mode' = "DISPERSED"
                /\ focusId' = NoFocus
                /\ nextPhotoIndex' = nextPhotoIndex]_vars
    /\ [](rawLog = <<"OPEN_PALM", "OPEN_PALM">>
             => /\ handState.isPresent
                /\ handState.gesture = "OPEN_PALM"
                /\ EffectSettled => (mode = "DISPERSED" /\ focusId = NoFocus))

\* two OPEN_PALM ticks have released a focused photo back into the cloud
C20_Witness_PalmFromFocus ==
    /\ rawLog = <<"OPEN_PALM", "OPEN_PALM">>
    /\ handUpdates = MaxTicks
    /\ nextPhotoIndex = 1
    /\ mode = "DISPERSED"
    /\ focusId = NoFocus

(***************************************************************************)
(* Properties of the gesture classifier.                                   *)
(***************************************************************************)
\* average tip-to-wrist distances and thumb-to-index distances (thousandths)
\* on and around the classifier's thresholds
Reaches == {300, 399, 400, 401, 450, 499, 500, 501, 700}
Pinches == {0, 30, 59, 60, 61, 200}

\* the priority-ordered reference on the two measured distances
ReferenceLabel(avgTip, pinch) ==
    IF avgTip < 400 THEN "FIST"
    ELSE IF pinch < 60 THEN "PINCH"
    ELSE IF avgTip > 500 THEN "OPEN_PALM"
    ELSE "NONE"

\* C27: for every landmark list of at least 21 points the classifier returns
\* FIST if the average tip distance is below 0.4 (whatever the thumb-index
\* distance), else PINCH if the thumb-index distance is below 0.06, else
\* OPEN_PALM if the average tip distance is above 0.5, else NONE; so an average
\* in [0.4, 0.5] with a thumb-index distance >= 0.06 gives NONE; the raw label
\* of a tick is never POINT.  The classifier reads nothing but its argument,
\* so its table is evaluated in the states before the first tick.
C27_ClassifierFollowsPriority ==
    /\ [](handUpdates = 0
            => \A n \in {21, 22}, a \in Reaches, q \in Pinches, x \in {400, 500} :
                  DetectGesture(Hand(n, x, 500, 500, a, q)) = ReferenceLabel(a, q))
    /\ [](handUpdates = 0
            => \A a \in {400, 450, 500}, q \in {60, 61, 200} :
                  DetectGesture(Hand(21, 500, 500, 500, a, q)) = "NONE")
    /\ [][IsTick => rawLog'[2] \in (RawGestures \cup {"NO_HAND"}) \ {"POINT"}]_vars

\* a tick has classified a fist whose thumb touches the index finger as FIST
\* (the hand with landmark 9 at x = 0.3, y = 0.7), twice in a row
C27_Witness_PinchedFistIsFist ==
    /\ rawLog = <<"FIST", "FIST">>
    /\ handState.isPresent
    /\ handState.gesture = "FIST"
    /\ handState.position = [x |-> 700, y |-> 700]
    /\ DetectGesture(PinchedFistHand) = "FIST"
    /\ Dist(PinchedFistHand.thumb, PinchedFistHand.tips[1]) < 60

\* C28 as stated: a tick that delivers a hand with fewer than 21 landmarks
\* completes without an error: the loop stays scheduled, and where the hand
\* state is reported (here the 15-landmark hand, landmark 9 at x = 0.4,
\* y = 0.6) the raw label is NONE, the stabilizer has taken NONE and isPresent
\* is true.
C28_Original_ShortListIsHarmless ==
    /\ [][tracking => tracking']_vars
    /\ [][(IsTick /\ handState'.position = [x |-> 600, y |-> 600])
             => /\ rawLog'[2] = "NONE"
                /\ lastRawGesture' = "NONE"
                /\ handState'.isPresent]_vars

(***************************************************************************)
(* Properties of the mode machine in a gallery session.                    *)
(***************************************************************************)
\* C21: from DISPERSED with no focus and a pool that is not empty, a present
\* hand with stable gesture PINCH yields mode FOCUS, the focus target
\* pool[cursor mod pool size] and the cursor advanced by exactly 1, so that the
\* next selection index is one further modulo the pool size; a pool of three
\* stored photos with cursor 0 gives the first photo and cursor 1.
C21_PinchSelectsRoundRobin ==
    /\ []((mode = "DISPERSED" /\ focusId = NoFocus /\ Len(photos) > 0)
             => LET next == ModeStep(PresentHand("PINCH"), mode, focusId, nextPhotoIndex)
                    size == Len(photos)
                IN  /\ next.mode = "FOCUS"
                    /\ next.focusId = photos[(nextPhotoIndex % size) + 1].id
                    /\ next.nextPhotoIndex = nextPhotoIndex + 1
                    /\ next.nextPhotoIndex % size = ((nextPhotoIndex % size) + 1) % size
                    /\ (photos = StoredPool(3) /\ nextPhotoIndex = 0)
                          => (next.focusId = Photo(0).id /\ next.nextPhotoIndex = 1))
    /\ [][(/\ IsModeChange
            /\ handState.isPresent /\ handState.gesture = "PINCH"
            /\ mode = "DISPERSED" /\ focusId = NoFocus /\ Len(photos) > 0)
             => /\ mode' = "FOCUS"
                /\ focusId' = photos[(nextPhotoIndex % Len(photos)) + 1].id
                /\ nextPhotoIndex' = nextPhotoIndex + 1]_vars

\* the third selection in a pool of two photos has wrapped round to the first
C21_Witness_WrappedSelection ==
    /\ mode = "FOCUS"
    /\ Len(photos) = 2
    /\ nextPhotoIndex = 3
    /\ focusId = photos[1].id
    /\ handState.gesture = "PINCH"

\* this step leaves the hand state and the pool as they are: it is a run of the
\* mode effect or a step of an upload that is still in flight
IsQuietStep == handState' = handState /\ photos' = photos

\* C22: while a focus target is set, a mode-machine step with stable gesture
\* PINCH leaves the focus target and the cursor unchanged, in whatever mode the
\* machine is and however often the step is repeated.
C22_PinchIdempotentWithFocus ==
    /\ [](\A m \in Modes, f \in PhotoIds \cup ({focusId} \ {NoFocus}) :
             ModeStep(PresentHand("PINCH"), m, f, nextPhotoIndex)
                = [mode |-> m, focusId |-> f, nextPhotoIndex |-> nextPhotoIndex])
    /\ [][(/\ IsQuietStep
            /\ focusId # NoFocus
            /\ handState.isPresent /\ handState.gesture = "PINCH")
             => /\ mode' = mode
                /\ focusId' = focusId
                /\ nextPhotoIndex' = nextPhotoIndex]_vars

\* a photo of a pool of three is in focus and the hand still shows PINCH
C22_Witness_PinchHeldInFocus ==
    /\ mode = "FOCUS"
    /\ focusId # NoFocus
    /\ Len(photos) = 3
    /\ handState.isPresent
    /\ handState.gesture = "PINCH"
    /\ EffectSettled

\* C23: in DISPERSED with an empty pool a present hand with stable gesture
\* PINCH changes nothing: the mode stays DISPERSED, there is no focus target
\* and the cursor is not advanced.
C23_PinchOnEmptyPoolIsNoOp ==
    /\ []((mode = "DISPERSED" /\ photos = <<>>)
             => /\ focusId = NoFocus
                /\ ModeStep(PresentHand("PINCH"), mode, focusId, nextPhotoIndex)
                      = [mode |-> "DISPERSED", focusId |-> NoFocus,
                         nextPhotoIndex |-> nextPhotoIndex])
    /\ [][(/\ IsQuietStep
            /\ mode = "DISPERSED" /\ photos = <<>>
            /\ handState.isPresent /\ handState.gesture = "PINCH")
             => /\ mode' = "DISPERSED"
                /\ focusId' = NoFocus
                /\ nextPhotoIndex' = nextPhotoIndex]_vars

\* the pool was emptied after a selection and the hand shows PINCH again
C23_Witness_PinchOnEmptiedPool ==
    /\ mode = "DISPERSED"
    /\ photos = <<>>
    /\ nextPhotoIndex = 1
    /\ handState.isPresent
    /\ handState.gesture = "PINCH"

\* the (mode, gesture) pairs that the transition table does not list
Unlisted(m, g) ==
    \/ g = "FIST" /\ m = "ASSEMBLED"
    \/ g = "PINCH" /\ m \in {"ASSEMBLED", "FOCUS"}
    \/ g = "OPEN_PALM" /\ m = "DISPERSED"
    \/ g \in {"NONE", "POINT"}

\* C24: for FIST in ASSEMBLED, PINCH in ASSEMBLED or FOCUS, OPEN_PALM in
\* DISPERSED, and NONE or POINT in any mode, a mode-machine step leaves the
\* mode, the focus target and the cursor unchanged.
C24_UnlistedPairsAreNoOps ==
    /\ [](\A g \in GestureType :
             Unlisted(mode, g)
                => ModeStep(PresentHand(g), mode, focusId, nextPhotoIndex)
                      = [mode |-> mode, focusId |-> focusId,
                         nextPhotoIndex |-> nextPhotoIndex])
    /\ [][(/\ IsQuietStep
            /\ handState.isPresent
            /\ Unlisted(mode, handState.gesture))
             => /\ mode' = mode
                /\ focusId' = focusId
                /\ nextPhotoIndex' = nextPhotoIndex]_vars

\* a photo is in focus while the hand shows POINT
C24_Witness_PointInFocus ==
    /\ mode = "FOCUS"
    /\ focusId \in PhotoIds
    /\ handState.isPresent
    /\ handState.gesture = "POINT"

\* C25: no step decreases or resets the cursor; it changes only on a run of the
\* mode effect under PINCH that selects a focus, and then by exactly +1.
C25_CursorOnlyAdvancesOnSelection ==
    [][/\ nextPhotoIndex' >= nextPhotoIndex
       /\ nextPhotoIndex' # nextPhotoIndex
             => /\ nextPhotoIndex' = nextPhotoIndex + 1
                /\ handState.isPresent /\ handState.gesture = "PINCH"
                /\ mode = "DISPERSED" /\ focusId = NoFocus
                /\ mode' = "FOCUS" /\ focusId' \in PhotoIds]_vars

\* after two selections, a return to ASSEMBLED, an upload, the loss of the
\* hand and the deletion of every photo the cursor still stands at 2
C25_Witness_CursorSurvives ==
    /\ nextPhotoIndex = 2
    /\ mode = "ASSEMBLED"
    /\ ~handState.isPresent
    /\ nextId > MaxPhotos
    /\ photos = <<>>

\* C26: whenever the mode is not FOCUS there is no focus target; FIST,
\* OPEN_PALM and the deletion of the focused photo clear it in the step that
\* leaves FOCUS.
C26_NoFocusOutsideFocusMode ==
    /\ [](mode # "FOCUS" => focusId = NoFocus)
    /\ [][(mode = "FOCUS" /\ mode' # "FOCUS") => focusId' = NoFocus]_vars

\* the focused first photo has been deleted while the hand shows PINCH
C26_Witness_FocusedPhotoDeleted ==
    /\ mode = "DISPERSED"
    /\ focusId = NoFocus
    /\ nextPhotoIndex = 1
    /\ Photo(0).id \notin PhotoIds
    /\ Len(photos) = 2
    /\ handState.isPresent
    /\ handState.gesture = "PINCH"

\* C29 as stated: every photo's dispersed radius lies in [6.0, 9.0] and its
\* vertical ratio in [-0.4, 0.4], whatever its effective index and random draw.
C29_Original_RadiusWithinNine ==
    \A k \in 1..Len(photos) :
        /\ photos[k].rScatter >= 6000
        /\ photos[k].rScatter <= 9000
        /\ photos[k].safeY >= 0 - 400
        /\ photos[k].safeY <= 400

\* C30: whenever the mode is FOCUS the focus target is the id of a photo in
\* the pool, after any gestures, uploads and deletions; a selection made with
\* a cursor beyond the pool size takes the photo at cursor mod pool size.
C30_FocusIsInPool ==
    /\ [](mode = "FOCUS" => (focusId # NoFocus /\ focusId \in PhotoIds))
    /\ [][(mode # "FOCUS" /\ mode' = "FOCUS")
             => /\ Len(photos) > 0
                /\ focusId' = photos[(nextPhotoIndex % Len(photos)) + 1].id]_vars

\* the only photo left is in focus, selected with the cursor at 2
C30_Witness_SelectedBeyondPool ==
    /\ mode = "FOCUS"
    /\ Len(photos) = 1
    /\ nextPhotoIndex = 3
    /\ focusId = photos[1].id
    /\ Photo(0).id \notin PhotoIds
    /\ Photo(1).id \notin PhotoIds

(***************************************************************************)
(* Properties of the showcase scheduler in a curated session.              *)
(***************************************************************************)
\* C31: a frame that ends with phase ACTIVE ends with 1 or 2 participants, each
\* stored under its own id; no frame leaves the scheduler ACTIVE and empty.
C31_ActiveTickLeavesOneOrTwo ==
    [][(time' # time /\ sys'.phase = "ACTIVE")
          => /\ Cardinality(DOMAIN sys'.active) \in 1..2
             /\ \A k \in DOMAIN sys'.active : sys'.active[k].id = k]_vars

\* one participant has returned while the other, whose photo was deleted
\* during the cycle, is still in flight
C31_Witness_OneLeftAfterDelete ==
    /\ sys.phase = "ACTIVE"
    /\ Cardinality(ActiveIds) = 1
    /\ ActiveIds \cap PhotoIds = {}
    /\ Len(photos) = 2

\* C33 as stated: every id among the participants is the id of a photo of the
\* pool, also after a showcased photo was deleted in ASSEMBLED with 2 left.
C33_Original_ParticipantsInPool == ActiveIds \subseteq PhotoIds

\* C34: no cycle starts at a time of 6 s or less, and a cycle starts more than
\* 6 s after the frame that left the scheduler without participants.
C34_SixSecondsBetweenCycles ==
    [][(sys.phase = "COOLDOWN" /\ sys'.phase = "ACTIVE")
          => /\ time' > CooldownDelay
             /\ lastCycleEnd # NoTick => time' - lastCycleEnd > CooldownDelay]_vars

\* a second cycle is running
C34_Witness_SecondCycle ==
    /\ sys.phase = "ACTIVE"
    /\ lastCycleEnd # NoTick
    /\ time > lastCycleEnd + CooldownDelay

(***************************************************************************)
(* Properties of selections, deletions and uploads in a gallery session.   *)
(***************************************************************************)
\* the focus targets of k successive selections that start with cursor c: PINCH
\* in DISPERSED without focus, then OPEN_PALM to leave FOCUS again
RECURSIVE PinchRun(_, _)
PinchRun(c, k) ==
    IF k = 0 THEN <<>>
    ELSE LET sel  == ModeStep(PresentHand("PINCH"), "DISPERSED", NoFocus, c)
             back == ModeStep(PresentHand("OPEN_PALM"), sel.mode, sel.focusId,
                              sel.nextPhotoIndex)
         IN  <<sel.focusId>> \o PinchRun(back.nextPhotoIndex, k - 1)

\* C35: with a pool of n >= 1 photos that does not change, n successive
\* selections focus every photo exactly once, in pool order from index
\* cursor mod n; every selection made in a run is the first of such a series.
C35_RoundRobinCoversPool ==
    /\ [](Len(photos) >= 1
            => LET n   == Len(photos)
                   run == PinchRun(nextPhotoIndex, n)
               IN  /\ Len(run) = n
                   /\ \A j \in 1..n :
                         run[j] = photos[((nextPhotoIndex + j - 1) % n) + 1].id
                   /\ {run[j] : j \in 1..n} = PhotoIds
                   /\ \A i, j \in 1..n : run[i] = run[j] => i = j)
    /\ [][(mode # "FOCUS" /\ mode' = "FOCUS")
             => /\ <<focusId'>> = PinchRun(nextPhotoIndex, 1)
                /\ nextPhotoIndex' = nextPhotoIndex + 1]_vars

\* the third of three selections in the stored pool of three has focused the
\* third photo
C35_Witness_ThreeSelections ==
    /\ photos = StoredPool(3)
    /\ nextPhotoIndex = 3
    /\ mode = "FOCUS"
    /\ focusId = photos[3].id

\* this step deletes a photo
IsDeletion == Len(photos') < Len(photos)

\* this step deletes the photo that is in focus
IsFocusedDeletion ==
    /\ IsDeletion
    /\ focusId # NoFocus
    /\ \A k \in 1..Len(photos') : photos'[k].id # focusId

\* C36: deleting the focused photo sets mode DISPERSED and clears the focus;
\* deleting another photo leaves mode and focus as they are; the cursor is
\* unchanged by either.
C36_DeletionEffect ==
    [][IsDeletion
         => /\ nextPhotoIndex' = nextPhotoIndex
            /\ Len(photos') = Len(photos) - 1
            /\ IF IsFocusedDeletion
               THEN mode' = "DISPERSED" /\ focusId' = NoFocus
               ELSE mode' = mode /\ focusId' = focusId]_vars

\* the first photo was deleted while the second was in focus, and still is
C36_Witness_OtherPhotoDeleted ==
    /\ mode = "FOCUS"
    /\ focusId = Photo(1).id
    /\ Photo(0).id \notin PhotoIds
    /\ Len(photos) = 2
    /\ nextPhotoIndex = 2

\* C37: when the focused photo is deleted while a present hand holds PINCH and
\* a photo is left, the hand state stays as it is and the next run of the mode
\* effect enters FOCUS on the photo at the cursor and advances the cursor by 1;
\* with PINCH held and a pool that is not empty the machine never rests in
\* DISPERSED.
C37_HeldPinchReselects ==
    /\ [][(/\ IsFocusedDeletion
            /\ handState.isPresent /\ handState.gesture = "PINCH"
            /\ photos' # <<>>
            /\ nextPhotoIndex < MaxCursor)
             => /\ handState' = handState
                /\ mode' = "DISPERSED"
                /\ (ModeStep(handState, mode, focusId, nextPhotoIndex))'
                      = [mode |-> "FOCUS",
                         focusId |-> photos'[(nextPhotoIndex % Len(photos')) + 1].id,
                         nextPhotoIndex |-> nextPhotoIndex + 1]]_vars
    /\ []((/\ handState.isPresent /\ handState.gesture = "PINCH"
            /\ photos # <<>>
            /\ nextPhotoIndex < MaxCursor
            /\ EffectSettled)
             => mode # "DISPERSED")

\* the first photo was deleted and the held PINCH has selected the photo at
\* cursor 1 of the two that are left
C37_Witness_ReselectedAfterDelete ==
    /\ mode = "FOCUS"
    /\ handState.isPresent
    /\ handState.gesture = "PINCH"
    /\ Photo(0).id \notin PhotoIds
    /\ Len(photos) = 2
    /\ nextPhotoIndex = 2
    /\ focusId = photos[2].id
    /\ EffectSettled

\* C39: the session starts in ASSEMBLED without focus, and a step that enters
\* FOCUS starts in DISPERSED, never in ASSEMBLED.
C39_FocusOnlyFromDispersed ==
    /\ mode = "ASSEMBLED" /\ focusId = NoFocus
    /\ [][(mode # "FOCUS" /\ mode' = "FOCUS") => mode = "DISPERSED"]_vars

\* the only photo of the pool is in focus while an upload is in flight
C39_Witness_FocusAfterDispersed ==
    /\ mode = "FOCUS"
    /\ Len(photos) = 1
    /\ nextPhotoIndex = 1
    /\ uploads # <<>>
    /\ handState.isPresent
    /\ handState.gesture = "PINCH"

\* C40 as stated: a photo appended by an upload has a placement index that no
\* photo of the pool has at the time it is appended, however uploads, failed
\* files and deletions interleave.
C40_Original_FreshPlacementIndex ==
    [][Len(photos') > Len(photos)
         => \A k \in (Len(photos) + 1)..Len(photos'), j \in 1..Len(photos) :
               photos'[k].index # photos[j].index]_vars

(***************************************************************************)
(* Properties of the presence debounce.                                    *)
(***************************************************************************)
\* C38: the first tick that reports a detected hand after a tick without hand,
\* or after start-up, reports gesture NONE with isPresent = true, whatever raw
\* label the tick computed.
C38_FirstSightReportsNone ==
    [][(IsTick /\ rawLog[2] = "NO_HAND" /\ rawLog'[2] # "NO_HAND")
         => /\ handState'.gesture = "NONE"
            /\ handState'.isPresent
            /\ stableGesture' = "NONE"]_vars

\* a hand that had dispersed the tree was lost and has come back pinching
C38_Witness_BackWithPinch ==
    /\ rawLog = <<"NO_HAND", "PINCH">>
    /\ mode = "DISPERSED"
    /\ handState.isPresent
    /\ handState.gesture = "NONE"

(***************************************************************************)
(* Properties of the showcase scheduler in an endless session.             *)
(***************************************************************************)
\* C32 as stated: with the mode ASSEMBLED, a fixed pool of at least 2 photos
\* and frames that keep coming with steps of any size, every ACTIVE phase
\* ends: the phase returns to COOLDOWN.
C32_Original_ActivePhaseEnds == (sys.phase = "ACTIVE") ~> (sys.phase = "COOLDOWN")

====
